---- MODULE Spec2Model ----
(***************************************************************************)
(* PostService of factory.py (publish_post, delete_post,                   *)
(* get_post_analytics) acting on one Post of one user, with the tables it  *)
(* reads and writes: SocialMediaAccount, PostPublication, PostAnalytics.   *)
(*                                                                         *)
(* Conventions.  A Python dict is a TLA+ record (a function on strings):   *)
(* "k in d" is "k" \in DOMAIN d and d.get(k, default) is a test on DOMAIN. *)
(* None is the empty tuple and a datetime t is <<t>>.  A database table is *)
(* a sequence of rows in insertion (primary key) order.  The remote        *)
(* platform is the environment: what an adapter call returns is an input   *)
(* of the action that makes the call.                                      *)
(***************************************************************************)
EXTENDS Integers, Sequences, FiniteSets, TLC

\* ------------------------------------------------------------------ bounds
\* Longest post.platforms list that is explored.
MaxPlatforms == 2
\* publish_post reads the clock and the clock starts at 1: no call is
\* started at or after this time.
MaxClock == 2
\* The same, for the runs that publish the post again.
MaxRepublishClock == 3

\* ------------------------------------------------------------- static data
PLATFORM_CHOICES == {"facebook", "instagram", "linkedin", "twitter"}

API_CLASSES ==
    [facebook |-> "FacebookAPI", twitter |-> "TwitterAPI", linkedin |-> "LinkedInAPI"]

\* account_id values of the user's accounts on one platform, in the order
\* the accounts were connected.
AccountIds == <<"acct_a", "acct_b">>

None == <<>>

Range(s) == {s[k] : k \in DOMAIN s}

EmptyDict == [k \in {} |-> None]

\* d[key] = value, as a dict assignment (adds the key or replaces its value).
DictSet(d, key, value) ==
    [k \in DOMAIN d \cup {key} |-> IF k = key THEN value ELSE d[k]]

\* The platform names the explored posts list: two platforms with an adapter
\* class (TwitterAPI is the one whose analytics dict has 'impressions') and
\* the one without.
PostPlatforms == {"facebook", "twitter", "instagram"}

PlatformLists == UNION {[1..n -> PostPlatforms] : n \in 0..MaxPlatforms}

VARIABLES
    post,          \* the Post row: platforms, status, published_date
    accounts,      \* SocialMediaAccount rows of post.user with is_active
    publications,  \* PostPublication rows of the post
    analytics,     \* PostAnalytics rows of those publications
    now,           \* timezone.now()
    last,          \* the last call: its return value and what it did
    calls          \* the invocations that run step by step, side by side

vars == <<post, accounts, publications, analytics, now, last, calls>>

\* The active SocialMediaAccount rows of post.user on one platform when n
\* of the user's accounts there are active (which ones is immaterial: the
\* code reads account_id only to build request URLs).
ActiveRows(platform, n) ==
    {[platform |-> platform, account_id |-> AccountIds[k]] : k \in 1..n}

\* The account tables a call on this post can tell apart: publish_post
\* filters on platform = p for p in post.platforms, and the other two
\* methods follow publication.account.
AccountTables(platforms) ==
    {UNION {ActiveRows(p, n[p]) : p \in Range(platforms)} :
        n \in [Range(platforms) -> 0..Len(AccountIds)]}

NoCall ==
    [op |-> "none", results |-> EmptyDict, invoked |-> <<>>, raised |-> FALSE,
     faults |-> {}, written |-> {}]

\* The invocations that can run side by side.
Invocations == {1, 2}

\* An invocation that has not started; copy is the Post instance the
\* invocation works on.
IdleCall(p) ==
    [op |-> "idle", pc |-> "idle", i |-> 0, t |-> 0, copy |-> p,
     results |-> EmptyDict, invoked |-> <<>>, faults |-> {}, written |-> {},
     seen |-> <<>>, outs |-> <<>>, raised |-> FALSE]

NoCalls(p) == [c \in Invocations |-> IdleCall(p)]

\* ---------------------------------------------------------------- adapters
\* What api.create_post can hand back to publish_post: the parsed JSON body
\* of a 2xx response (with or without a top-level 'id'), the error dict of
\* _make_request, or an exception that escapes the adapter.
CreateOutcomes ==
    {[raised |-> FALSE, kind |-> "id"],
     [raised |-> FALSE, kind |-> "data"],
     [raised |-> FALSE, kind |-> "error"],
     [raised |-> TRUE, kind |-> "exception"]}

\* The id the platform gives the post created by the i-th dispatch of the
\* call made at time t.
PlatformPostId(t, i) == "post_" \o ToString(t) \o "_" \o ToString(i)

create_post(outcome, t, i) ==
    CASE outcome.kind = "id" -> [id |-> PlatformPostId(t, i)]
      [] outcome.kind = "data" -> [data |-> PlatformPostId(t, i)]
      [] outcome.kind = "error" -> [error |-> "429 Client Error: Too Many Requests"]
      [] OTHER -> [exception |-> "ConnectionError"]

\* ------------------------------------------------------------ publish_post
\* SocialMediaAccount.objects.get(user=post.user, platform=p, is_active=True)
AccountGet(platform) ==
    LET found == {a \in accounts : a.platform = platform}
    IN  IF found = {} THEN [exc |-> "DoesNotExist", account |-> None]
        ELSE IF Cardinality(found) > 1
             THEN [exc |-> "MultipleObjectsReturned", account |-> None]
             ELSE [exc |-> "", account |-> CHOOSE a \in found : TRUE]

\* A table without the constraint.
UniqueViolation_Off(rows, account) == FALSE

\* unique_together = ['post', 'account'] of PostPublication, as checked by
\* the database on INSERT.
UniqueViolation(rows, account) == \E k \in DOMAIN rows : rows[k].account = account

\* PostPublication.objects.create(...) of publish_post: the row built from
\* the adapter's result.
PublicationRow(account, result, t) ==
    [account |-> account,
     platform_post_id |-> IF "id" \in DOMAIN result THEN result.id ELSE "",
     published_at |-> IF "error" \notin DOMAIN result THEN <<t>> ELSE None,
     error_message |-> IF "error" \in DOMAIN result THEN result.error ELSE "",
     is_success |-> "error" \notin DOMAIN result]

\* results[platform] = outcome, on the loop state st.
SetResult(st, platform, outcome) ==
    [st EXCEPT !.results = DictSet(@, platform, outcome)]

\* except SocialMediaAccount.DoesNotExist
OnDoesNotExist_GenericMessage(st, platform) ==
    SetResult(st, platform,
        [error |-> "SocialMediaAccount matching query does not exist."])

OnDoesNotExist(st, platform) ==
    SetResult(st, platform, [error |-> "No active " \o platform \o " account found"])

\* if not api_class: results[platform] = {...}; continue
OnUnsupported_Silent(st, platform) == st

\* The loop body without the test: api_class(account) is a call of None.
OnUnsupported_NoCheck(st, platform) ==
    SetResult(st, platform, [error |-> "'NoneType' object is not callable"])

OnUnsupported(st, platform) ==
    SetResult(st, platform, [error |-> "Platform " \o platform \o " not supported"])

\* except Exception as e: results[platform] = {'error': str(e)}
OnException(st, platform, message) == SetResult(st, platform, [error |-> message])

\* One iteration of "for platform in post.platforms", on the loop state st
\* (the rows, the results dict and the log so far); inp is what the
\* environment does in this iteration.
PublishOne(st, i, inp, t) ==
    LET platform == post.platforms[i]
        got == AccountGet(platform)
    IN  IF got.exc = "DoesNotExist"
        THEN OnDoesNotExist(st, platform)
        ELSE IF got.exc = "MultipleObjectsReturned"
        THEN OnException(st, platform, "get() returned more than one SocialMediaAccount")
        ELSE IF platform \notin DOMAIN API_CLASSES
        THEN OnUnsupported(st, platform)
        ELSE
          LET result == create_post(inp.outcome, t, i)
              call == [method |-> "create_post", account |-> got.account,
                       arg |-> "", raised |-> inp.outcome.raised, returned |-> result]
              st1 == [st EXCEPT !.invoked = Append(@, call)]
              row == PublicationRow(got.account, result, t)
          IN  IF inp.outcome.raised
              THEN OnException(st1, platform, result.exception)
              ELSE IF inp.create_fault
              THEN OnException([st1 EXCEPT !.faults = @ \cup {i}], platform,
                               "OperationalError")
              ELSE IF UniqueViolation(st1.rows, got.account)
              THEN OnException(st1, platform, "IntegrityError")
              ELSE SetResult([st1 EXCEPT !.rows = Append(@, row),
                                         !.written = @ \cup {got.account}],
                             platform,
                             [success |-> row.is_success,
                              post_id |-> row.platform_post_id,
                              error |-> row.error_message])

\* The loop with a handler that lets the first per-platform error end it.
RECURSIVE PublishLoop_StopsAtError(_, _, _, _)
PublishLoop_StopsAtError(st, i, inps, t) ==
    IF i > Len(post.platforms) THEN st
    ELSE LET st1 == PublishOne(st, i, inps[i], t)
             p == post.platforms[i]
         IN  IF p \in DOMAIN st1.results /\ "success" \notin DOMAIN st1.results[p]
             THEN st1
             ELSE PublishLoop_StopsAtError(st1, i + 1, inps, t)

RECURSIVE PublishLoop(_, _, _, _)
PublishLoop(st, i, inps, t) ==
    IF i > Len(post.platforms) THEN st
    ELSE PublishLoop(PublishOne(st, i, inps[i], t), i + 1, inps, t)

\* The list without its filter.
successful_platforms_Unfiltered(results) == DOMAIN results

\* [p for p, r in results.items() if r.get('success')]
successful_platforms(results) ==
    {p \in DOMAIN results : "success" \in DOMAIN results[p] /\ results[p].success}

\* What the environment does in one iteration: the adapter's outcome, and
\* whether the INSERT of the publication row meets an unreachable database
\* (a fault that only matters once the adapter has returned a result).
PublishInputs ==
    {x \in [outcome : CreateOutcomes, create_fault : BOOLEAN] :
        x.create_fault => x.outcome.kind = "id"}

\* The iterations of the loop that reach api.create_post: the account
\* resolves and the platform has an adapter class.
Dispatched ==
    {i \in DOMAIN post.platforms :
        /\ AccountGet(post.platforms[i]).exc = ""
        /\ post.platforms[i] \in DOMAIN API_CLASSES}

\* PostService.publish_post(post, media_urls), called before the time limit.
PublishPost(limit) ==
    /\ now < limit
    /\ \E inps \in [Dispatched -> PublishInputs], save_fault \in BOOLEAN :
         \E st \in {PublishLoop([rows |-> publications, results |-> EmptyDict,
                                 invoked |-> <<>>, faults |-> {}, written |-> {}],
                                1, inps, now)} :
             /\ publications' = st.rows
             /\ post' = IF save_fault THEN post
                        ELSE IF successful_platforms(st.results) # {}
                             THEN [post EXCEPT !.status = "published",
                                               !.published_date = <<now>>]
                             ELSE [post EXCEPT !.status = "failed"]
             /\ last' = [op |-> "publish_post",
                         results |-> IF save_fault THEN EmptyDict ELSE st.results,
                         invoked |-> st.invoked,
                         raised |-> save_fault,
                         faults |-> st.faults \cup (IF save_fault THEN {0} ELSE {}),
                         written |-> st.written]
    /\ now' = now + 1
    /\ UNCHANGED <<accounts, analytics, calls>>

publish_post == PublishPost(MaxClock)

\* A publish_post call in a run that may publish the post again.
republish_post == PublishPost(MaxRepublishClock)

\* ------------------------------------------------------------- delete_post
\* What api.delete_post can hand back: True, False, or an exception.
DeleteOutcomes ==
    {[raised |-> FALSE, success |-> TRUE],
     [raised |-> FALSE, success |-> FALSE],
     [raised |-> TRUE, success |-> FALSE]}

\* The queryset without its filter.
SuccessfulPublications_Unfiltered == DOMAIN publications

\* post.publications.filter(is_success=True), as primary keys.
SuccessfulPublications == {k \in DOMAIN publications : publications[k].is_success}

\* One iteration of "for publication in ...filter(is_success=True)" of
\* delete_post, on publication k.
DeleteOne(st, k, outcome) ==
    LET publication == publications[k]
        platform == publication.account.platform
        call == [method |-> "delete_post", account |-> publication.account,
                 arg |-> publication.platform_post_id, raised |-> outcome.raised,
                 returned |-> [success |-> outcome.success]]
        st1 == [st EXCEPT !.invoked = Append(@, call)]
    IN  IF platform \notin DOMAIN API_CLASSES THEN st
        ELSE IF outcome.raised
        THEN [st1 EXCEPT !.results =
                  DictSet(@, platform, [success |-> FALSE, error |-> "ConnectionError"])]
        ELSE [st1 EXCEPT !.results =
                  DictSet(@, platform,
                      [success |-> outcome.success,
                       error |-> IF outcome.success THEN ""
                                 ELSE "Failed to delete from platform"])]

\* The loop without its try/except: an adapter exception ends it.
RECURSIVE DeleteLoop_StopsAtException(_, _, _)
DeleteLoop_StopsAtException(st, k, outs) ==
    IF k > Len(publications) THEN st
    ELSE IF k \in SuccessfulPublications
         THEN IF outs[k].raised THEN st
              ELSE DeleteLoop_StopsAtException(DeleteOne(st, k, outs[k]), k + 1, outs)
         ELSE DeleteLoop_StopsAtException(st, k + 1, outs)

RECURSIVE DeleteLoop(_, _, _)
DeleteLoop(st, k, outs) ==
    IF k > Len(publications) THEN st
    ELSE IF k \in SuccessfulPublications
         THEN DeleteLoop(DeleteOne(st, k, outs[k]), k + 1, outs)
         ELSE DeleteLoop(st, k + 1, outs)

\* delete_post that marks the attempts it asked to delete.
delete_post_ClearsRecords ==
    /\ \E outs \in [SuccessfulPublications -> DeleteOutcomes] :
         \E st \in {DeleteLoop([results |-> EmptyDict, invoked |-> <<>>], 1, outs)} :
             last' = [op |-> "delete_post", results |-> st.results,
                      invoked |-> st.invoked, raised |-> FALSE, faults |-> {},
                      written |-> {}]
    /\ publications' = [n \in DOMAIN publications |->
                           [publications[n] EXCEPT !.is_success = FALSE]]
    /\ UNCHANGED <<post, accounts, analytics, now, calls>>

\* PostService.delete_post(post)
delete_post ==
    /\ \E outs \in [SuccessfulPublications -> DeleteOutcomes] :
         \E st \in {DeleteLoop([results |-> EmptyDict, invoked |-> <<>>], 1, outs)} :
             last' = [op |-> "delete_post", results |-> st.results,
                      invoked |-> st.invoked, raised |-> FALSE, faults |-> {},
                      written |-> {}]
    /\ UNCHANGED <<post, accounts, publications, analytics, now, calls>>

\* ------------------------------------------------------ get_post_analytics
\* Counter values a platform reports.
Metrics == {10}

\* What api.get_post_analytics can hand back: {} (not available), the
\* parsed counters, or an exception.
AnalyticsOutcomes ==
    {[raised |-> FALSE, kind |-> "empty", v |-> 0], [raised |-> TRUE, kind |-> "exception", v |-> 0]}
    \cup {[raised |-> FALSE, kind |-> "data", v |-> v] : v \in Metrics}

\* The dict each adapter builds from the platform's response.
adapter_get_post_analytics(platform, outcome) ==
    IF outcome.kind # "data" THEN EmptyDict
    ELSE IF platform = "twitter"
         THEN [likes |-> outcome.v, comments |-> outcome.v, shares |-> outcome.v,
               impressions |-> outcome.v, raw_data |-> [data |-> outcome.v]]
         ELSE [likes |-> outcome.v, comments |-> outcome.v, shares |-> outcome.v,
               raw_data |-> [count |-> outcome.v]]

\* A PostAnalytics row with the defaults of its fields.
PostAnalyticsDefaults(k) ==
    [publication |-> k, likes |-> 0, comments |-> 0, shares |-> 0,
     impressions |-> 0, reach |-> 0, clicks |-> 0, raw_data |-> EmptyDict]

\* setattr(row, key, value) for every key of the dict d.
SetAttrs(row, d) ==
    [f \in DOMAIN row |-> IF f \in DOMAIN d THEN d[f] ELSE row[f]]

\* PostAnalytics.objects.get_or_create(publication=k, defaults=d), and the
\* update of a row that was not created.
StoreAnalytics(rows, k, d) ==
    IF \E n \in DOMAIN rows : rows[n].publication = k
    THEN LET n == CHOOSE n \in DOMAIN rows : rows[n].publication = k
             keys == [key \in DOMAIN d \ {"raw_data"} |-> d[key]]
             raw == IF "raw_data" \in DOMAIN d THEN d.raw_data ELSE EmptyDict
         IN  [rows EXCEPT ![n] = [SetAttrs(@, keys) EXCEPT !.raw_data = raw]]
    ELSE Append(rows, SetAttrs(PostAnalyticsDefaults(k), d))

\* A test that takes every dict, the empty one too.
Truthy_Always(d) == TRUE

\* "if platform_analytics:", the truth value of a dict.
Truthy(d) == DOMAIN d # {}

\* One iteration of "for publication in ...filter(is_success=True)" of
\* get_post_analytics, on publication k.
AnalyticsOne(st, k, outcome) ==
    LET publication == publications[k]
        platform == publication.account.platform
        platform_analytics == adapter_get_post_analytics(platform, outcome)
        call == [method |-> "get_post_analytics", account |-> publication.account,
                 arg |-> publication.platform_post_id, raised |-> outcome.raised,
                 returned |-> platform_analytics]
        st1 == [st EXCEPT !.invoked = Append(@, call)]
    IN  IF platform \notin DOMAIN API_CLASSES THEN st
        ELSE IF outcome.raised
        THEN [st1 EXCEPT !.results = DictSet(@, platform, [error |-> "ConnectionError"])]
        ELSE IF Truthy(platform_analytics)
        THEN [st1 EXCEPT
                  !.rows = StoreAnalytics(@, k, platform_analytics),
                  !.written = @ \cup {k},
                  !.results = DictSet(@, platform, platform_analytics)]
        ELSE st1

RECURSIVE AnalyticsLoop(_, _, _)
AnalyticsLoop(st, k, outs) ==
    IF k > Len(publications) THEN st
    ELSE IF k \in SuccessfulPublications
         THEN AnalyticsLoop(AnalyticsOne(st, k, outs[k]), k + 1, outs)
         ELSE AnalyticsLoop(st, k + 1, outs)

\* PostService.get_post_analytics(post)
get_post_analytics ==
    /\ \E outs \in [SuccessfulPublications -> AnalyticsOutcomes] :
         \E st \in {AnalyticsLoop([rows |-> analytics, results |-> EmptyDict,
                                   invoked |-> <<>>, written |-> {}], 1, outs)} :
             /\ analytics' = st.rows
             /\ last' = [op |-> "get_post_analytics", results |-> st.results,
                         invoked |-> st.invoked, raised |-> FALSE, faults |-> {},
                         written |-> st.written]
    /\ UNCHANGED <<post, accounts, publications, now, calls>>

\* ------------------------------------------ the adapters, request by request
\* Longest media_urls list that is explored.
MaxMedia == 2

AdapterClasses == {API_CLASSES[p] : p \in DOMAIN API_CLASSES}

MediaLists == {[k \in 1..n |-> "media_url_" \o ToString(k)] : n \in 0..MaxMedia}

\* What the platform does with one request sent through _make_request: a
\* 2xx response with the JSON body the call is after, a 2xx response with
\* an unrelated JSON body, a non-2xx response, or no connection.
HttpOutcomes == {"json", "unrelated", "http_error", "connection_error"}

\* SocialMediaAPI._make_request: the parsed body, or the dict that carries
\* str(e) of the RequestException.
make_request(outcome, body) ==
    CASE outcome = "json" -> body
      [] outcome = "unrelated" -> [message |-> "OK"]
      [] outcome = "http_error" -> [error |-> "503 Server Error: Service Unavailable"]
      [] OTHER -> [error |-> "ConnectionError"]

\* What requests.get(media_url) of TwitterAPI._upload_media meets.
DownloadOutcomes == {"200", "404", "connection_error"}

\* What the environment does to the upload of one media item.  Only
\* TwitterAPI downloads the item, and it uploads what it could download.
UploadInputs(cls) ==
    {x \in [download : DownloadOutcomes, upload : HttpOutcomes] :
        /\ cls # "TwitterAPI" => x.download = "200"
        /\ x.download # "200" => x.upload = "json"}

\* The handle the platform issues for the k-th item of the list.
MediaHandle(k) == "media_id_" \o ToString(k)

\* _upload_media of each adapter, on the k-th item: whether an exception
\* escaped, whether the returned value is true in "if media_id:", the
\* value, and the requests that were sent.
FacebookAPI_upload_media(k, inp) ==
    LET result == make_request(inp.upload, [id |-> MediaHandle(k)])
        found == "error" \notin DOMAIN result /\ "id" \in DOMAIN result
    IN  [raised |-> FALSE, truthy |-> found,
         handle |-> IF found THEN result.id ELSE "",
         requests |-> <<[req |-> "upload", item |-> k]>>]

TwitterAPI_upload_media(k, inp) ==
    IF inp.download = "connection_error"
    THEN [raised |-> TRUE, truthy |-> FALSE, handle |-> "",
          requests |-> <<[req |-> "download", item |-> k]>>]
    ELSE IF inp.download # "200"
    THEN [raised |-> FALSE, truthy |-> FALSE, handle |-> "",
          requests |-> <<[req |-> "download", item |-> k]>>]
    ELSE LET result == make_request(inp.upload, [media_id_string |-> MediaHandle(k)])
             found == "error" \notin DOMAIN result /\ "media_id_string" \in DOMAIN result
         IN  [raised |-> FALSE, truthy |-> found,
              handle |-> IF found THEN result.media_id_string ELSE "",
              requests |-> <<[req |-> "download", item |-> k],
                             [req |-> "upload", item |-> k]>>]

LinkedInAPI_upload_media(k, inp) ==
    LET result == make_request(inp.upload, [value |-> [asset |-> MediaHandle(k)]])
        asset == IF "value" \in DOMAIN result THEN result.value.asset ELSE ""
    IN  [raised |-> FALSE, truthy |-> "error" \notin DOMAIN result,
         handle |-> [status |-> "READY", media |-> asset],
         requests |-> <<[req |-> "upload", item |-> k]>>]

upload_media(cls, k, inp) ==
    CASE cls = "FacebookAPI" -> FacebookAPI_upload_media(k, inp)
      [] cls = "TwitterAPI" -> TwitterAPI_upload_media(k, inp)
      [] OTHER -> LinkedInAPI_upload_media(k, inp)

\* "for media_url in media_urls" of create_post: st holds the handles
\* appended so far and the requests sent so far.
RECURSIVE UploadLoop(_, _, _, _)
UploadLoop(cls, st, k, inps) ==
    IF k > Len(inps) THEN st
    ELSE LET up == upload_media(cls, k, inps[k])
             st1 == [st EXCEPT !.requests = @ \o up.requests]
         IN  IF up.raised THEN [st1 EXCEPT !.raised = TRUE]
             ELSE IF up.truthy
                  THEN UploadLoop(cls, [st1 EXCEPT !.handles = Append(@, up.handle)],
                                  k + 1, inps)
                  ELSE UploadLoop(cls, st1, k + 1, inps)

\* create_post of an adapter (the three bodies differ in the request they
\* build only): the uploads when media_urls is not empty, then the request
\* that creates the post, with the handles when there are any.
api_create_post(cls, media_urls, env) ==
    LET st0 == [handles |-> <<>>, requests |-> <<>>, raised |-> FALSE]
        st == IF Len(media_urls) > 0 THEN UploadLoop(cls, st0, 1, env.uploads) ELSE st0
    IN  IF st.raised
        THEN [raised |-> TRUE, returned |-> [exception |-> "ConnectionError"],
              requests |-> st.requests, posted |-> FALSE, attached |-> <<>>]
        ELSE [raised |-> FALSE,
              returned |-> make_request(env.post, [id |-> "platform_post_id"]),
              requests |-> Append(st.requests, [req |-> "post", item |-> 0]),
              posted |-> TRUE, attached |-> st.handles]

\* delete_post of an adapter (the three bodies differ in the URL only).
api_delete_post(cls, outcome) ==
    LET result == make_request(outcome, [success |-> TRUE])
    IN  "error" \notin DOMAIN result

\* A call of api.create_post(content, media_urls).
adapter_create_post ==
    /\ \E cls \in AdapterClasses, media_urls \in MediaLists :
         \E uploads \in [DOMAIN media_urls -> UploadInputs(cls)], p \in HttpOutcomes :
             \E call \in {api_create_post(cls, media_urls, [uploads |-> uploads, post |-> p])} :
                 last' = [op |-> "create_post", results |-> EmptyDict, invoked |-> <<>>,
                          raised |-> call.raised, faults |-> {}, written |-> {},
                          cls |-> cls, media_urls |-> media_urls,
                          env |-> [uploads |-> uploads, post |-> p], call |-> call]
    /\ UNCHANGED <<post, accounts, publications, analytics, now, calls>>

\* A call of api.delete_post(post_id).
adapter_delete_post ==
    /\ \E cls \in AdapterClasses, outcome \in HttpOutcomes :
         last' = [op |-> "api_delete_post", results |-> EmptyDict, invoked |-> <<>>,
                  raised |-> FALSE, faults |-> {}, written |-> {},
                  cls |-> cls, env |-> outcome,
                  returned |-> api_delete_post(cls, outcome)]
    /\ UNCHANGED <<post, accounts, publications, analytics, now, calls>>

\* results[platform] of publish_post for a result the adapter returned.
PublishOutcome(result) ==
    [success |-> "error" \notin DOMAIN result,
     post_id |-> IF "id" \in DOMAIN result THEN result.id ELSE "",
     error |-> IF "error" \in DOMAIN result THEN result.error ELSE ""]

\* ------------------------------------------- invocations, step by step
\* The methods of PostService as they run when invocations overlap: every
\* step is one statement that reads or writes a table, or one adapter call.
\* An invocation works on its own Post instance and its own results dict.

\* The loop state of publish_post for invocation c: the table as it is now
\* and the invocation's own dict and log.
LoopState(c) ==
    [rows |-> publications, results |-> calls[c].results, invoked |-> calls[c].invoked,
     faults |-> calls[c].faults, written |-> calls[c].written]

\* The invocation after an iteration that left the loop state st.
AfterIteration(c, st) ==
    [calls[c] EXCEPT !.pc = "loop", !.i = @ + 1, !.results = st.results,
                     !.invoked = st.invoked, !.faults = st.faults,
                     !.written = st.written]

\* publish_post is called: the view has loaded the Post instance.
StartPublish(c) ==
    /\ calls[c].op = "idle"
    /\ calls' = [calls EXCEPT ![c] =
                    [IdleCall(post) EXCEPT !.op = "publish_post", !.pc = "loop",
                                           !.i = 1, !.t = now]]
    /\ now' = now + 1
    /\ last' = [op |-> "start", c |-> c]
    /\ UNCHANGED <<post, accounts, publications, analytics>>

\* An iteration that ends before api.create_post: no active account, more
\* than one, or no adapter class.
ResolvePlatform(c) ==
    /\ calls[c].op = "publish_post" /\ calls[c].pc = "loop"
    /\ calls[c].i \in DOMAIN post.platforms \ Dispatched
    /\ \E inp \in {CHOOSE x \in PublishInputs : TRUE} :
         calls' = [calls EXCEPT ![c] =
                      AfterIteration(c, PublishOne(LoopState(c), calls[c].i, inp, calls[c].t))]
    /\ last' = [op |-> "resolve", c |-> c]
    /\ UNCHANGED <<post, accounts, publications, analytics, now>>

\* api.create_post sends its request: requests.request is called without a
\* timeout and blocks until the platform answers.
DispatchPlatform(c) ==
    /\ calls[c].op = "publish_post" /\ calls[c].pc = "loop"
    /\ calls[c].i \in Dispatched
    /\ calls' = [calls EXCEPT ![c].pc = "waiting"]
    /\ last' = [op |-> "dispatch", c |-> c]
    /\ UNCHANGED <<post, accounts, publications, analytics, now>>

\* The platform answers: api.create_post returns or raises, and the rest of
\* the iteration runs (the INSERT of the attempt record, results[platform]).
PlatformResponds(c) ==
    /\ calls[c].op = "publish_post" /\ calls[c].pc = "waiting"
    /\ \E inp \in PublishInputs :
         \E st \in {PublishOne(LoopState(c), calls[c].i, inp, calls[c].t)} :
             /\ publications' = st.rows
             /\ calls' = [calls EXCEPT ![c] = AfterIteration(c, st)]
             /\ last' = [op |-> IF inp.outcome.raised \/ inp.create_fault
                                THEN "respond" ELSE "insert",
                         c |-> c,
                         row |-> PublicationRow(AccountGet(post.platforms[calls[c].i]).account,
                                                create_post(inp.outcome, calls[c].t, calls[c].i),
                                                calls[c].t)]
    /\ UNCHANGED <<post, accounts, analytics, now>>

\* The platform never answers the request.
PlatformNeverResponds(c) ==
    /\ calls[c].op = "publish_post" /\ calls[c].pc = "waiting"
    /\ calls' = [calls EXCEPT ![c].pc = "blocked"]
    /\ last' = [op |-> "no response", c |-> c]
    /\ UNCHANGED <<post, accounts, publications, analytics, now>>

\* The aggregation after the loop and post.save(), which writes every field
\* of the invocation's Post instance.
SavePost(c) ==
    /\ calls[c].op = "publish_post" /\ calls[c].pc = "loop"
    /\ calls[c].i > Len(post.platforms)
    /\ \E save_fault \in BOOLEAN :
         /\ post' = IF save_fault THEN post
                    ELSE IF successful_platforms(calls[c].results) # {}
                         THEN [calls[c].copy EXCEPT !.status = "published",
                                                    !.published_date = <<calls[c].t>>]
                         ELSE [calls[c].copy EXCEPT !.status = "failed"]
         /\ calls' = [calls EXCEPT ![c].pc = "done", ![c].raised = save_fault,
                                   ![c].faults = @ \cup (IF save_fault THEN {0} ELSE {})]
    /\ last' = [op |-> "save", c |-> c]
    /\ UNCHANGED <<accounts, publications, analytics, now>>

\* The primary keys of post.publications.filter(is_success=True), in the
\* order of the table.
RECURSIVE SuccessfulInOrder(_)
SuccessfulInOrder(n) ==
    IF n = 0 THEN <<>>
    ELSE IF publications[n].is_success THEN Append(SuccessfulInOrder(n - 1), n)
         ELSE SuccessfulInOrder(n - 1)

\* get_post_analytics is called and evaluates its queryset; outs is what
\* the platforms answer about each attempt record, asked or not.
StartAnalytics(c) ==
    /\ calls[c].op = "idle"
    /\ \E outs \in [DOMAIN post.platforms -> AnalyticsOutcomes] :
         calls' = [calls EXCEPT ![c] =
                      [IdleCall(post) EXCEPT !.op = "get_post_analytics", !.pc = "loop",
                                             !.i = 1, !.outs = outs,
                                             !.seen = SuccessfulInOrder(Len(publications))]]
    /\ last' = [op |-> "start", c |-> c]
    /\ UNCHANGED <<post, accounts, publications, analytics, now>>

\* The step that saves the Post instance as well.
AnalyticsStep_SavesPost(c) ==
    /\ calls[c].op = "get_post_analytics" /\ calls[c].pc = "loop"
    /\ calls[c].i \in DOMAIN calls[c].seen
    /\ post' = calls[c].copy
    /\ calls' = [calls EXCEPT ![c].i = @ + 1]
    /\ last' = [op |-> "analytics", c |-> c]
    /\ UNCHANGED <<accounts, publications, analytics, now>>

\* One iteration of the loop of get_post_analytics.
AnalyticsStep(c) ==
    /\ calls[c].op = "get_post_analytics" /\ calls[c].pc = "loop"
    /\ calls[c].i \in DOMAIN calls[c].seen
    /\ \E st \in {AnalyticsOne([rows |-> analytics, results |-> calls[c].results,
                                invoked |-> calls[c].invoked, written |-> calls[c].written],
                               calls[c].seen[calls[c].i],
                               calls[c].outs[calls[c].seen[calls[c].i]])} :
         /\ analytics' = st.rows
         /\ calls' = [calls EXCEPT ![c].i = @ + 1, ![c].results = st.results,
                                   ![c].invoked = st.invoked, ![c].written = st.written]
    /\ last' = [op |-> "analytics", c |-> c]
    /\ UNCHANGED <<post, accounts, publications, now>>

\* get_post_analytics returns its dict.
ReturnAnalytics(c) ==
    /\ calls[c].op = "get_post_analytics" /\ calls[c].pc = "loop"
    /\ calls[c].i > Len(calls[c].seen)
    /\ calls' = [calls EXCEPT ![c].pc = "done"]
    /\ last' = [op |-> "return", c |-> c]
    /\ UNCHANGED <<post, accounts, publications, analytics, now>>

\* ------------------------------------------------- the view and the task
\* Any status passes.
IsDraft_Always(p) == TRUE

\* The test of PostViewSet.publish: not (post.status != 'draft').
IsDraft(p) == p.status = "draft"

\* PostViewSet.publish: the manual publish action on the post.
PostViewSet_publish ==
    \/ /\ ~IsDraft(post)
       /\ last' = [op |-> "publish", status_code |-> 400,
                   results |-> [error |-> "Only draft posts can be published"],
                   invoked |-> <<>>, raised |-> FALSE, faults |-> {}, written |-> {}]
       /\ UNCHANGED <<post, accounts, publications, analytics, now, calls>>
    \/ /\ IsDraft(post)
       /\ PublishPost(MaxClock)

\* The filter without its status test.
ScheduledDue_AnyStatus(p, t) == p.scheduled_date # None /\ p.scheduled_date[1] <= t

\* Post.objects.filter(status='scheduled', scheduled_date__lte=now)
ScheduledDue(p, t) ==
    p.status = "scheduled" /\ p.scheduled_date # None /\ p.scheduled_date[1] <= t

\* The Post instance after the aggregation of publish_post.
Aggregated(p, results, t) ==
    IF successful_platforms(results) # {}
    THEN [p EXCEPT !.status = "published", !.published_date = <<t>>]
    ELSE [p EXCEPT !.status = "failed"]

\* One run of the task publish_scheduled_posts: publish_post on the post
\* when the filter selects it, and the handler that marks the post
\* 'failed' and saves it when publish_post raises.  The run raises when the
\* handler's post.save() raises too.  The task prints the results and returns
\* nothing: a run leaves whether it selected the post and whether it raised.
publish_scheduled_posts ==
    /\ now < MaxRepublishClock
    /\ \/ /\ ~ScheduledDue(post, now)
          /\ last' = [op |-> "publish_scheduled_posts", selected |-> FALSE,
                      raised |-> FALSE]
          /\ UNCHANGED <<post, publications>>
       \/ /\ ScheduledDue(post, now)
          /\ \E inps \in [Dispatched -> PublishInputs], save_fault \in BOOLEAN,
                handler_fault \in BOOLEAN :
               /\ handler_fault => save_fault
               /\ \E st \in {PublishLoop([rows |-> publications, results |-> EmptyDict,
                                          invoked |-> <<>>, faults |-> {}, written |-> {}],
                                         1, inps, now)} :
                    /\ publications' = st.rows
                    /\ post' = IF ~save_fault THEN Aggregated(post, st.results, now)
                               ELSE IF ~handler_fault
                                    THEN [Aggregated(post, st.results, now)
                                             EXCEPT !.status = "failed"]
                                    ELSE post
                    /\ last' = [op |-> "publish_scheduled_posts", selected |-> TRUE,
                                raised |-> handler_fault]
    /\ now' = now + 1
    /\ UNCHANGED <<accounts, analytics, calls>>

\* ----------------------------------------------------------- specification
Init ==
    /\ \E platforms \in PlatformLists :
         /\ post = [platforms |-> platforms, status |-> "draft", published_date |-> None]
         /\ accounts \in AccountTables(platforms)
    /\ publications = <<>>
    /\ analytics = <<>>
    /\ now = 1
    /\ last = NoCall
    /\ calls = NoCalls(post)

Next ==
    \/ publish_post
    \/ delete_post
    \/ get_post_analytics

Spec == Init /\ [][Next]_vars

\* The calls of publish_post alone.
NextPublish == publish_post

SpecPublish == Init /\ [][NextPublish]_vars

\* The calls of publish_post alone, the post being published again.
NextRepublish == republish_post

SpecRepublish == Init /\ [][NextRepublish]_vars

\* publish_post and get_post_analytics.
NextAnalytics ==
    \/ publish_post
    \/ get_post_analytics

SpecAnalytics == Init /\ [][NextAnalytics]_vars

\* publish_post and delete_post.
NextDelete ==
    \/ publish_post
    \/ delete_post

SpecDelete == Init /\ [][NextDelete]_vars

\* Every method, the post being published again.
NextRecords ==
    \/ republish_post
    \/ delete_post
    \/ get_post_analytics

SpecRecords == Init /\ [][NextRecords]_vars

\* The adapters alone, on a post that is not touched.
InitAdapter ==
    /\ post = [platforms |-> <<>>, status |-> "draft", published_date |-> None]
    /\ accounts = {}
    /\ publications = <<>>
    /\ analytics = <<>>
    /\ now = 1
    /\ last = NoCall
    /\ calls = NoCalls(post)

NextAdapter ==
    \/ adapter_create_post
    \/ adapter_delete_post

SpecAdapter == InitAdapter /\ [][NextAdapter]_vars

\* Two publish_post invocations for the post, side by side.
NextOverlap ==
    \/ \E c \in Invocations : StartPublish(c)
    \/ \E c \in Invocations : ResolvePlatform(c)
    \/ \E c \in Invocations : DispatchPlatform(c)
    \/ \E c \in Invocations : PlatformResponds(c)
    \/ \E c \in Invocations : SavePost(c)

SpecOverlap == Init /\ [][NextOverlap]_vars

\* publish_post (invocation 1) and get_post_analytics (invocation 2), side
\* by side.
NextInterleave ==
    \/ StartPublish(1)
    \/ ResolvePlatform(1)
    \/ DispatchPlatform(1)
    \/ PlatformResponds(1)
    \/ SavePost(1)
    \/ StartAnalytics(2)
    \/ AnalyticsStep(2)
    \/ ReturnAnalytics(2)

SpecInterleave == Init /\ [][NextInterleave]_vars

\* One publish_post invocation and platforms that may never answer.  The
\* interpreter runs the invocation's own statements, and a platform that
\* has not answered yet either answers or never does.
NextTimeout ==
    \/ StartPublish(1)
    \/ ResolvePlatform(1)
    \/ DispatchPlatform(1)
    \/ PlatformResponds(1)
    \/ PlatformNeverResponds(1)
    \/ SavePost(1)

SpecTimeout == Init /\ [][NextTimeout]_vars /\ WF_vars(NextTimeout)

\* The scheduled_date values of the stored posts.
ScheduledDates == {<<t>> : t \in 1..MaxClock}

\* A post as PostService.create_post stores it: 'scheduled' when it has a
\* scheduled_date, 'draft' otherwise.
InitStored ==
    /\ \E platforms \in PlatformLists, scheduled_date \in {None} \cup ScheduledDates :
         /\ post = [platforms |-> platforms,
                    status |-> IF scheduled_date = None THEN "draft" ELSE "scheduled",
                    scheduled_date |-> scheduled_date, published_date |-> None]
         /\ accounts \in AccountTables(platforms)
    /\ publications = <<>>
    /\ analytics = <<>>
    /\ now = 1
    /\ last = NoCall
    /\ calls = NoCalls(post)

\* The manual publish action, called again and again.
NextView == PostViewSet_publish

SpecView == InitStored /\ [][NextView]_vars

\* The runs of the task on the stored post.
NextScheduler == publish_scheduled_posts

SpecScheduler == InitStored /\ [][NextScheduler]_vars

\* ================================================================== claims
\* The calls of one method that the last call made on the adapters.
Invoked(method) ==
    {k \in DOMAIN last.invoked : last.invoked[k].method = method}

InvokedOn(method, platform) ==
    {k \in Invoked(method) : last.invoked[k].account.platform = platform}

\* An entry of a returned map that reports success.
Succeeded(outcome) == "success" \in DOMAIN outcome /\ outcome.success = TRUE

ActiveOn(platform) == {a \in accounts : a.platform = platform}

Returned(op) == last.op = op /\ ~last.raised

\* C1: the map publish_post returns has one outcome for each platform of
\* post.platforms and none for any other platform, whatever happened to
\* each platform.
C1_OneOutcomePerPlatform ==
    Returned("publish_post") => DOMAIN last.results = Range(post.platforms)

\* A call that returned for two platforms, one published and one refused
\* by an exception of its adapter.
C1_Witness ==
    /\ Returned("publish_post")
    /\ Cardinality(Range(post.platforms)) = 2
    /\ \E p, q \in Range(post.platforms) :
         /\ Succeeded(last.results[p])
         /\ last.results[q] = [error |-> "ConnectionError"]

\* C2: when publish_post returns, post.status is 'published' if an outcome
\* of the call succeeded and 'failed' if none did; and a call without a
\* successful outcome leaves an unset published_date unset.
C2_StatusAggregatesOutcomes ==
    [][ (last'.op = "publish_post" /\ ~last'.raised) =>
          IF \E p \in DOMAIN last'.results : Succeeded(last'.results[p])
          THEN post'.status = "published"
          ELSE /\ post'.status = "failed"
               /\ post.published_date = None => post'.published_date = None ]_vars

\* The mixed case: facebook published with an id, twitter rate limited, and
\* the post is 'published'.
C2_Witness ==
    /\ Returned("publish_post")
    /\ post.platforms = <<"facebook", "twitter">>
    /\ Succeeded(last.results["facebook"])
    /\ last.results["facebook"].post_id # ""
    /\ "success" \in DOMAIN last.results["twitter"]
    /\ ~last.results["twitter"].success
    /\ last.results["twitter"].error # ""
    /\ post.status = "published"

\* C3: published_date is set once: a publish_post call never changes a
\* published_date that is already set (stated for calls that meet no
\* persistence fault, after a call that met none).
C3_PublishedDateSetOnce ==
    [][ (post.published_date # None /\ last.faults = {} /\ last'.faults = {})
            => post'.published_date = post.published_date ]_vars

\* C4: republishing to a platform whose attempt record exists overwrites
\* the record: when the record of an account is a failed one and the
\* adapter now returns a post id, then after the call (no persistence fault
\* in it) the account has one record, successful and with the new id.
C4_RepublishOverwrites ==
    [][ (last'.op = "publish_post" /\ last'.faults = {}) =>
          \A k \in DOMAIN last'.invoked :
              LET call == last'.invoked[k]
                  before == {n \in DOMAIN publications :
                                publications[n].account = call.account}
                  after == {n \in DOMAIN publications' :
                                publications'[n].account = call.account}
              IN  ( /\ \E n \in before : ~publications[n].is_success
                    /\ "id" \in DOMAIN call.returned )
                  => /\ Cardinality(after) = 1
                     /\ \A n \in after :
                          /\ publications'[n].is_success
                          /\ publications'[n].platform_post_id = call.returned.id ]_vars

\* C5: a platform of post.platforms without an active account of the author
\* gets the 'no active account' outcome, no call of an adapter and no
\* attempt record; when it is the only platform the post is 'failed'.
C5_NoActiveAccount ==
    last.op = "publish_post" =>
        \A p \in Range(post.platforms) :
            ActiveOn(p) = {} =>
                /\ InvokedOn("create_post", p) = {}
                /\ \A a \in last.written : a.platform # p
                /\ ~last.raised =>
                     /\ last.results[p] = [error |-> "No active " \o p \o " account found"]
                     /\ Range(post.platforms) = {p} => post.status = "failed"

\* A post for one platform that has an adapter class, with no active
\* account there.
C5_Witness ==
    /\ Returned("publish_post")
    /\ Len(post.platforms) = 1
    /\ post.platforms[1] \in DOMAIN API_CLASSES
    /\ ActiveOn(post.platforms[1]) = {}
    /\ post.status = "failed"

\* The number of entries of post.platforms that name the platform.
Listed(platform) ==
    Cardinality({i \in DOMAIN post.platforms : post.platforms[i] = platform})

\* C6, as stated: every platform of post.platforms that has an active
\* account and an adapter class gets create_post invoked (once for each
\* time it is listed), whatever happened to the platforms before it.
C6_EveryPlatformDispatched ==
    last.op = "publish_post" =>
        \A p \in Range(post.platforms) :
            (ActiveOn(p) # {} /\ p \in DOMAIN API_CLASSES) =>
                Cardinality(InvokedOn("create_post", p)) = Listed(p)

\* C6, amended: every platform of post.platforms that has exactly one
\* active account and an adapter class gets create_post invoked (once for
\* each time it is listed), whatever happened to the platforms before it.
C6_EveryResolvedPlatformDispatched ==
    last.op = "publish_post" =>
        \A p \in Range(post.platforms) :
            (Cardinality(ActiveOn(p)) = 1 /\ p \in DOMAIN API_CLASSES) =>
                Cardinality(InvokedOn("create_post", p)) = Listed(p)

\* A call whose first platform ended in an error and whose second platform
\* was dispatched all the same.
C6_Witness ==
    /\ Returned("publish_post")
    /\ Len(post.platforms) = 2
    /\ post.platforms[1] # post.platforms[2]
    /\ ~Succeeded(last.results[post.platforms[1]])
    /\ InvokedOn("create_post", post.platforms[2]) # {}
    /\ Succeeded(last.results[post.platforms[2]])

\* C7: a persistence fault during publish_post (the INSERT of an attempt
\* record, or post.save()) propagates to the caller.
C7_PersistenceFaultPropagates ==
    (last.op = "publish_post" /\ last.faults # {}) => last.raised

\* The PostAnalytics rows of the publication of an account.
SnapshotsOf(rows, account) ==
    {rows[j] : j \in {j \in DOMAIN rows :
                        publications[rows[j].publication].account = account}}

\* C8: when the adapter returns the empty dict for a successful attempt,
\* get_post_analytics leaves the stored snapshot of that attempt as it was,
\* and creates none if there was none.
C8_EmptyKeepsSnapshot ==
    [][ last'.op = "get_post_analytics" =>
          \A k \in DOMAIN last'.invoked :
              (~last'.invoked[k].raised /\ DOMAIN last'.invoked[k].returned = {}) =>
                  SnapshotsOf(analytics', last'.invoked[k].account)
                      = SnapshotsOf(analytics, last'.invoked[k].account) ]_vars

\* The adapter returned the empty dict for an attempt whose stored snapshot
\* has likes = 10.
C8_Witness ==
    /\ last.op = "get_post_analytics"
    /\ \E k \in DOMAIN last.invoked :
         /\ ~last.invoked[k].raised
         /\ DOMAIN last.invoked[k].returned = {}
         /\ \E row \in SnapshotsOf(analytics, last.invoked[k].account) :
              row.likes = 10 /\ row.raw_data # EmptyDict

\* The platforms that have an attempt record with is_success true.
PublishedOn ==
    {publications[n].account.platform :
        n \in {n \in DOMAIN publications : publications[n].is_success}}

\* C9: for a platform without a successful attempt record,
\* get_post_analytics returns no entry, invokes no adapter and writes no
\* snapshot.
C9_NoSuccessNoAnalytics ==
    last.op = "get_post_analytics" =>
        \A p \in PLATFORM_CHOICES \ PublishedOn :
            /\ p \notin DOMAIN last.results
            /\ InvokedOn("get_post_analytics", p) = {}
            /\ \A n \in last.written : publications[n].account.platform # p

\* Analytics were fetched for one platform while the other platform of the
\* post has a failed attempt record only.
C9_Witness ==
    /\ last.op = "get_post_analytics"
    /\ last.written # {}
    /\ \E n \in DOMAIN publications :
         /\ ~publications[n].is_success
         /\ publications[n].account.platform \notin PublishedOn

\* C10: delete_post invokes the adapter's delete_post once for every
\* successful attempt record, with the record's platform_post_id; a
\* platform without a successful attempt is not contacted and is not in the
\* returned map.
C10_DeleteEverySuccess ==
    last.op = "delete_post" =>
        /\ \A n \in DOMAIN publications :
             publications[n].is_success =>
                 Cardinality({k \in Invoked("delete_post") :
                     /\ last.invoked[k].account = publications[n].account
                     /\ last.invoked[k].arg = publications[n].platform_post_id}) = 1
        /\ Len(last.invoked) =
               Cardinality({n \in DOMAIN publications : publications[n].is_success})
        /\ \A k \in DOMAIN last.invoked :
             last.invoked[k].account.platform \in PublishedOn
        /\ DOMAIN last.results \subseteq PublishedOn

\* The post has two successful attempts: the adapter of the first one
\* raised, and the second one was deleted all the same.
C10_Witness ==
    /\ last.op = "delete_post"
    /\ Len(last.invoked) = 2
    /\ last.invoked[1].raised
    /\ last.invoked[2].returned.success

\* The outcome of a platform without an adapter class, when it is reached.
UnsupportedOutcome(p) ==
    /\ InvokedOn("create_post", p) = {}
    /\ \A a \in last.written : a.platform # p
    /\ ~last.raised => last.results[p] = [error |-> "Platform " \o p \o " not supported"]
    /\ Len(last.invoked) = Cardinality(Dispatched)

\* C16, as stated: a platform of post.platforms that has an active account
\* and no adapter class in API_CLASSES gets the 'platform not supported'
\* error outcome, no adapter call and no attempt record, and the other
\* platforms are processed all the same.
C16_UnsupportedPlatform ==
    last.op = "publish_post" =>
        \A p \in Range(post.platforms) :
            (ActiveOn(p) # {} /\ p \notin DOMAIN API_CLASSES) => UnsupportedOutcome(p)

\* C16, amended: the same for a platform that has exactly one active
\* account.
C16_UnsupportedResolvedPlatform ==
    last.op = "publish_post" =>
        \A p \in Range(post.platforms) :
            (Cardinality(ActiveOn(p)) = 1 /\ p \notin DOMAIN API_CLASSES)
                => UnsupportedOutcome(p)

\* instagram, with one active account, is refused and facebook, listed
\* after it, is published.
C16_Witness ==
    /\ Returned("publish_post")
    /\ post.platforms = <<"instagram", "facebook">>
    /\ Cardinality(ActiveOn("instagram")) = 1
    /\ last.results["instagram"] = [error |-> "Platform instagram not supported"]
    /\ Succeeded(last.results["facebook"])
    /\ \A n \in DOMAIN publications : publications[n].account.platform = "facebook"

\* The attempt records of one account.
RecordsOf(account) == {n \in DOMAIN publications : publications[n].account = account}

\* C19: whatever publish_post, delete_post and get_post_analytics calls were
\* made, no account has two attempt records of the post.
C19_OneRecordPerAccount ==
    \A n, m \in DOMAIN publications :
        publications[n].account = publications[m].account => n = m

\* The post was published again on an account that has its attempt record:
\* the adapter was invoked and the account still has one record.
C19_Witness ==
    /\ last.op = "publish_post"
    /\ \E k \in DOMAIN last.invoked :
         /\ ~last.invoked[k].raised
         /\ last.invoked[k].account \notin last.written
         /\ Cardinality(RecordsOf(last.invoked[k].account)) = 1
         /\ last.results[last.invoked[k].account.platform] = [error |-> "IntegrityError"]

\* The platform issued a handle for the item.
UploadSucceeded(inp) == inp.download = "200" /\ inp.upload = "json"

\* The last call was create_post with a media list.
CreatedWithMedia == last.op = "create_post" /\ Len(last.media_urls) > 0

\* The last call was create_post with several media items.
CreatedWithSeveral == last.op = "create_post" /\ Len(last.media_urls) > 1

\* C11: create_post of an adapter does not raise for a remote failure (a
\* network error, a non-2xx response, a failed download or upload of a
\* media item): it returns a result.
C11_CreatePostNeverRaises ==
    last.op = "create_post" => ~last.call.raised

\* C12: when create_post has a media list and the upload of every item
\* fails, it returns an error for the whole call and sends no request that
\* creates the post.
C12_AllUploadsFailNoPost ==
    ( /\ CreatedWithMedia
      /\ \A k \in DOMAIN last.media_urls : ~UploadSucceeded(last.env.uploads[k]) )
    => /\ ~last.call.raised
       /\ ~last.call.posted
       /\ "error" \in DOMAIN last.call.returned

\* The same call when the upload of every item succeeds.
EveryItemAttached ==
    api_create_post(last.cls, last.media_urls,
        [uploads |-> [k \in DOMAIN last.media_urls |-> [download |-> "200", upload |-> "json"]],
         post |-> last.env.post])

\* C13: when some media uploads of a create_post call fail and some
\* succeed, the outcome publish_post records for the platform differs from
\* the outcome of the call in which every item was attached.
C13_PartialMediaFailureReported ==
    ( /\ CreatedWithMedia
      /\ ~last.call.raised
      /\ \E k \in DOMAIN last.media_urls : UploadSucceeded(last.env.uploads[k])
      /\ \E k \in DOMAIN last.media_urls : ~UploadSucceeded(last.env.uploads[k]) )
    => PublishOutcome(last.call.returned) # PublishOutcome(EveryItemAttached.returned)

\* C15: delete_post of an adapter returns true exactly when the platform
\* confirmed the removal.
C15_DeleteTrueIffConfirmed ==
    last.op = "api_delete_post" => (last.returned <=> last.env = "json")

\* The handle of the k-th item when its upload succeeds.
ExpectedHandle(cls, k) ==
    IF cls = "LinkedInAPI" THEN [status |-> "READY", media |-> MediaHandle(k)]
    ELSE MediaHandle(k)

\* The handles of the items of 1..n whose upload succeeded, in list order.
RECURSIVE ExpectedHandles(_)
ExpectedHandles(n) ==
    IF n = 0 THEN <<>>
    ELSE IF UploadSucceeded(last.env.uploads[n])
         THEN Append(ExpectedHandles(n - 1), ExpectedHandle(last.cls, n))
         ELSE ExpectedHandles(n - 1)

\* C20: create_post with media items attempts every item, in list order,
\* and creates the post with the handles of the successful uploads, in
\* list order.
C20_UploadsInOrder ==
    CreatedWithSeveral =>
        LET reqs == last.call.requests
            uploads == {j \in DOMAIN reqs : reqs[j].req # "post"}
        IN  /\ {reqs[j].item : j \in uploads} = DOMAIN last.media_urls
            /\ \A i, j \in uploads : i < j => reqs[i].item <= reqs[j].item
            /\ last.call.posted
            /\ last.call.attached = ExpectedHandles(Len(last.media_urls))

\* C14: a publish_post invocation that has started returns (its platform
\* calls are bounded by a timeout), whether the platforms answer or not.
C14_PublishReturns ==
    (calls[1].op = "publish_post") ~> (calls[1].pc = "done")

\* C17: when publish_post invocations overlap, the last writer wins: after
\* an invocation has written the attempt of an account while another
\* invocation is running, the account has one attempt record and it is the
\* one this invocation wrote.
C17_LastWriterWins ==
    ( /\ last.op = "insert"
      /\ \E d \in Invocations \ {last.c} :
           calls[d].op = "publish_post" /\ calls[d].pc \in {"loop", "waiting"} )
    => /\ Cardinality(RecordsOf(last.row.account)) = 1
       /\ \A n \in RecordsOf(last.row.account) : publications[n] = last.row

\* Both invocations have returned.
BothDone == \A c \in Invocations : calls[c].pc = "done"

NoSnapshots == [rows |-> <<>>, results |-> EmptyDict, invoked |-> <<>>, written |-> {}]

\* The snapshots get_post_analytics writes over the attempt records seen,
\* from the j-th on.
RECURSIVE SnapshotsOver(_, _, _, _)
SnapshotsOver(st, seen, j, outs) ==
    IF j > Len(seen) THEN st.rows
    ELSE SnapshotsOver(AnalyticsOne(st, seen[j], outs[seen[j]]), seen, j + 1, outs)

\* The snapshots are those of a serial order: get_post_analytics after
\* publish_post (it reads every attempt record) or before it (it reads
\* none), the platforms answering as they answer in this run.
SerialSnapshots ==
    BothDone =>
        \/ analytics = AnalyticsLoop(NoSnapshots, 1, calls[2].outs).rows
        \/ analytics = <<>>

\* The snapshots are those of get_post_analytics over the attempt records
\* that were in the table when it evaluated its queryset.
SnapshotsOfRecordsRead ==
    BothDone =>
        /\ \E n \in 0..Len(publications) : calls[2].seen = SuccessfulInOrder(n)
        /\ analytics = SnapshotsOver(NoSnapshots, calls[2].seen, 1, calls[2].outs)

\* A step of get_post_analytics (invocation 2) writes no attempt record and
\* no field of the post, and a step of publish_post (invocation 1) writes
\* no snapshot.
DisjointWrites ==
    /\ calls'[2] # calls[2] => (post' = post /\ publications' = publications)
    /\ calls'[1] # calls[1] => analytics' = analytics

\* C18, as stated: get_post_analytics and publish_post write disjoint
\* tables, and when both have returned the snapshots (with the attempt
\* records and the post, which publish_post alone writes) are those of one
\* of the two serial orders.
C18_SerialOutcome ==
    [][ DisjointWrites /\ SerialSnapshots' ]_vars

\* C18, amended: get_post_analytics and publish_post write disjoint tables,
\* and when both have returned the snapshots are those of
\* get_post_analytics over the successful attempt records that existed
\* when it read them, a prefix of what publish_post wrote.
C18_DisjointWritesPrefixRead ==
    [][ DisjointWrites /\ SnapshotsOfRecordsRead' ]_vars

\* Both returned; publish_post wrote two successful attempts and
\* get_post_analytics, which read the table between the two, stored the
\* snapshot of the first one only.
C18_Witness ==
    /\ BothDone
    /\ Cardinality(SuccessfulPublications) = 2
    /\ calls[2].seen = <<1>>
    /\ Len(analytics) = 1
    /\ \A k \in DOMAIN calls[2].outs : calls[2].outs[k].kind = "data"

\* C21: every stored attempt record is consistent: is_success is true
\* exactly when platform_post_id is not empty and published_at is set, and
\* a failed attempt has an empty platform_post_id, no published_at and an
\* error_message.
C21_RecordsConsistent ==
    \A n \in DOMAIN publications :
        LET row == publications[n]
        IN  /\ row.is_success <=> (row.platform_post_id # "" /\ row.published_at # None)
            /\ ~row.is_success =>
                 /\ row.platform_post_id = ""
                 /\ row.published_at = None
                 /\ row.error_message # ""

\* C23: after the publish_post calls made so far, post.status is
\* 'published' exactly when a stored attempt record of the post has
\* is_success true (stated after a call that met no persistence fault).
C23_StatusMatchesRecords ==
    (last.op = "publish_post" /\ last.faults = {}) =>
        (post.status = "published" <=> PublishedOn # {})

\* C24: no platform post is orphaned: every post id that create_post
\* returned in the last publish_post call is the platform_post_id of the
\* attempt record of its account (so that delete_post asks for its
\* deletion).
C24_NoOrphanedPlatformPost ==
    last.op = "publish_post" =>
        \A k \in DOMAIN last.invoked :
            "id" \in DOMAIN last.invoked[k].returned =>
                \E n \in RecordsOf(last.invoked[k].account) :
                    publications[n].platform_post_id = last.invoked[k].returned.id

\* C22: the manual publish action on a post whose status is not 'draft'
\* returns the error 'Only draft posts can be published', invokes no
\* adapter and leaves the post and its attempt records as they were.
C22_OnlyDraftsPublished ==
    [][ post.status # "draft" =>
          /\ last'.op = "publish"
          /\ last'.results = [error |-> "Only draft posts can be published"]
          /\ last'.invoked = <<>>
          /\ post' = post
          /\ publications' = publications ]_vars

\* The action was refused on a post that an earlier call had published.
C22_Witness ==
    /\ last.op = "publish"
    /\ last.results = [error |-> "Only draft posts can be published"]
    /\ post.status = "published"
    /\ PublishedOn # {}

\* The last step was a run of the task that selected the post and returned.
HandledByRun ==
    last.op = "publish_scheduled_posts" /\ last.selected /\ ~last.raised

AskedFor(call) == [k \in DOMAIN call.invoked |->
                      <<call.invoked[k].account, call.invoked[k].arg>>]

\* C26: delete_post changes no persisted state (the post, the attempt
\* records, the snapshots), whatever the platforms answered; a delete_post
\* call that follows another asks the adapters to delete the same platform
\* posts again.
C26_DeleteKeepsState ==
    [][ last'.op = "delete_post" =>
          /\ post' = post
          /\ publications' = publications
          /\ analytics' = analytics
          /\ last.op = "delete_post" => AskedFor(last') = AskedFor(last) ]_vars

\* The platform confirmed the deletion of a post whose attempt record is
\* still a successful one, with its snapshot.
C26_Witness ==
    /\ last.op = "delete_post"
    /\ \E k \in DOMAIN last.invoked :
         /\ last.invoked[k].returned.success
         /\ \E n \in RecordsOf(last.invoked[k].account) :
              /\ publications[n].is_success
              /\ publications[n].platform_post_id = last.invoked[k].arg
              /\ \E j \in DOMAIN analytics : analytics[j].publication = n
    /\ post.status = "published"

====
